---- MODULE Spec2Model ----
(***************************************************************************)
(* Model of the Insights results smart proxy HTTP server                   *)
(* (src/services/redis.go): the cluster resolver, the content              *)
(* filter/enricher, the report and single-rule endpoints, and the          *)
(* rule-group configuration reader fed by a background refresher.          *)
(***************************************************************************)
EXTENDS Integers, Sequences, FiniteSets, TLC

VARIABLES
    Config,             \* HTTPServer.Config and the presence of HTTPServer.amsClient
    pc,                 \* "idle" between calls, "done" after an operation ran
    op,                 \* name of the operation that ran last
    request,            \* its inputs (request, upstream answers)
    ret,                \* its return values
    written,            \* responses written to the http.ResponseWriter, in order
    calls,              \* outbound calls it made (content lookups, AMS, aggregator)
    ErrorFoundChannel,  \* HTTPServer.ErrorFoundChannel, oldest element first
    ErrorChannel,       \* HTTPServer.ErrorChannel
    GroupsChannel,      \* HTTPServer.GroupsChannel
    refresher,          \* position of the background refresher
    reader,             \* position and result of each getGroupsConfig caller
    published           \* the refresher's latest completed publish

vars == <<Config, pc, op, request, ret, written, calls,
          ErrorFoundChannel, ErrorChannel, GroupsChannel, refresher, reader, published>>

callVars == <<pc, op, request, ret, written, calls>>
groupVars == <<ErrorFoundChannel, ErrorChannel, GroupsChannel, refresher, reader, published>>

(***************************************************************************)
(* Bounds                                                                  *)
(***************************************************************************)
MaxHits == 2        \* longest aggregator report (list of rule hits)
MaxCount == 3       \* largest counter handed to getRuleCount directly
MaxClusters == 2    \* longest cluster list a membership or aggregator answer holds
NumReaders == 2     \* request handlers calling getGroupsConfig concurrently
MaxModifiers == 2   \* longest chain of request or response modifiers of a proxy

(***************************************************************************)
(* Errors, as the Go error types the code tells apart                      *)
(***************************************************************************)
Nil == "nil"
RuleContentDirectoryTimeoutError == "RuleContentDirectoryTimeoutError"
ItemNotFoundError == "ItemNotFoundError"

(***************************************************************************)
(* Rule content repository.  One (module, error key) pair per lookup       *)
(* outcome: content found, found but not eligible for the OSD audience,    *)
(* found and flagged internal, not found, lookup timed out.                *)
(***************************************************************************)
Modules == {"A"}
ErrorKeys == {"K1", "K_ADMIN", "K_INTERNAL", "K_MISSING", "K_SLOW"}

RuleContentDirectory ==
    [k \in ErrorKeys |->
        CASE k = "K1"         -> [status |-> "found", TotalRisk |-> 2, Tags |-> <<"t1">>,
                                  Internal |-> FALSE, OSDEligible |-> TRUE]
          [] k = "K_ADMIN"    -> [status |-> "found", TotalRisk |-> 3, Tags |-> <<"t1", "t2">>,
                                  Internal |-> FALSE, OSDEligible |-> FALSE]
          [] k = "K_INTERNAL" -> [status |-> "found", TotalRisk |-> 4, Tags |-> <<>>,
                                  Internal |-> TRUE, OSDEligible |-> TRUE]
          [] k = "K_MISSING"  -> [status |-> "missing"]
          [] k = "K_SLOW"     -> [status |-> "timeout"]]

\* ctypes.RuleOnReport, the fields the pipeline reads
RuleOnReport == [Module : Modules, ErrorKey : ErrorKeys, Disabled : BOOLEAN]

RECURSIVE SeqsUpTo(_, _)
SeqsUpTo(S, n) ==
    IF n = 0 THEN {<<>>}
    ELSE LET shorter == SeqsUpTo(S, n - 1)
         IN  shorter \cup {Append(s, x) : s \in {t \in shorter : Len(t) = n - 1}, x \in S}

Reports == SeqsUpTo(RuleOnReport, MaxHits)

\* content.GetRuleWithErrorKeyContent: (content, error)
GetRuleWithErrorKeyContent(ruleID, errorKey) ==
    LET c == RuleContentDirectory[errorKey]
    IN  CASE c.status = "timeout" -> [content |-> Nil, err |-> RuleContentDirectoryTimeoutError]
          [] c.status = "missing" -> [content |-> Nil, err |-> ItemNotFoundError]
          [] OTHER                -> [content |-> c, err |-> Nil]

\* content.FetchRuleContent: (rule with content, filtered by OSD eligibility, error)
FetchRuleContent(rule, OSDEligible) ==
    LET r == GetRuleWithErrorKeyContent(rule.Module, rule.ErrorKey)
    IN  IF r.err # Nil
        THEN [rule |-> Nil, filtered |-> FALSE, err |-> r.err]
        ELSE IF OSDEligible /\ ~r.content.OSDEligible
        THEN [rule |-> Nil, filtered |-> TRUE, err |-> Nil]
        ELSE [rule |-> [RuleID |-> rule.Module, ErrorKey |-> rule.ErrorKey,
                        Disabled |-> rule.Disabled,
                        TotalRisk |-> r.content.TotalRisk, Tags |-> r.content.Tags,
                        Internal |-> r.content.Internal],
              filtered |-> FALSE, err |-> Nil]

(***************************************************************************)
(* filterRulesInResponse.  The accumulator holds the named results of the  *)
(* Go function plus the content lookups made so far.                       *)
(***************************************************************************)
filterInit ==
    [okRules |-> <<>>, noContentRulesCnt |-> 0, disabledRulesCnt |-> 0,
     contentError |-> Nil, lookups |-> <<>>]

\* mutant: the disabled check is dropped, every hit is looked up
filterStep_NoDisabledCheck(acc, aggregatorRule, filterOSD, getDisabled) ==
    LET f == FetchRuleContent(aggregatorRule, filterOSD)
        looked == [acc EXCEPT !.lookups = Append(@, aggregatorRule.ErrorKey)]
    IN  IF f.err # Nil
        THEN LET counted == IF ~f.filtered
                            THEN [looked EXCEPT !.noContentRulesCnt = @ + 1]
                            ELSE looked
             IN  IF f.err = RuleContentDirectoryTimeoutError
                 THEN [counted EXCEPT !.contentError = f.err]
                 ELSE counted
        ELSE IF f.filtered
        THEN looked
        ELSE [looked EXCEPT !.okRules = Append(@, f.rule)]

\* one iteration of the loop over aggregatorReport
filterStep(acc, aggregatorRule, filterOSD, getDisabled) ==
    IF aggregatorRule.Disabled /\ ~getDisabled
    THEN [acc EXCEPT !.disabledRulesCnt = @ + 1]
    ELSE
        LET f == FetchRuleContent(aggregatorRule, filterOSD)
            looked == [acc EXCEPT !.lookups = Append(@, aggregatorRule.ErrorKey)]
        IN  IF f.err # Nil
            THEN LET counted == IF ~f.filtered
                                THEN [looked EXCEPT !.noContentRulesCnt = @ + 1]
                                ELSE looked
                 IN  IF f.err = RuleContentDirectoryTimeoutError
                     THEN [counted EXCEPT !.contentError = f.err]
                     ELSE counted
            ELSE IF f.filtered
            THEN looked
            ELSE [looked EXCEPT !.okRules = Append(@, f.rule)]

\* the loop: it ends after the last hit, or at the hit that set contentError
RECURSIVE filterLoop(_, _, _, _, _)
filterLoop(acc, aggregatorReport, i, filterOSD, getDisabled) ==
    IF i > Len(aggregatorReport) \/ acc.contentError # Nil
    THEN acc
    ELSE filterLoop(filterStep(acc, aggregatorReport[i], filterOSD, getDisabled),
                    aggregatorReport, i + 1, filterOSD, getDisabled)

filterRulesInResponse(aggregatorReport, filterOSD, getDisabled) ==
    filterLoop(filterInit, aggregatorReport, 1, filterOSD, getDisabled)

\* mutant: the "no content for any rule" edge case ignores the disabled count
getRuleCount_IgnoresDisabled(visibleRules, noContentRulesCnt, disabledRulesCnt) ==
    IF Len(visibleRules) = 0 /\ noContentRulesCnt > 0
    THEN 0
    ELSE Len(visibleRules) + noContentRulesCnt

\* mutant: the visible rules are left out of the total
getRuleCount_NoContentOnly(visibleRules, noContentRulesCnt, disabledRulesCnt) ==
    IF Len(visibleRules) = 0 /\ noContentRulesCnt > 0 /\ disabledRulesCnt = 0
    THEN 0
    ELSE noContentRulesCnt

getRuleCount(visibleRules, noContentRulesCnt, disabledRulesCnt) ==
    LET totalRuleCnt == Len(visibleRules) + noContentRulesCnt
    IN  IF Len(visibleRules) = 0 /\ noContentRulesCnt > 0 /\ disabledRulesCnt = 0
        THEN 0
        ELSE totalRuleCnt

(***************************************************************************)
(* Server configuration and request inputs                                 *)
(***************************************************************************)
Orgs == {1, 2}
AllowLists == {{}, {1}}
ClusterNames == {"c1", "c2"}

\* identity carried by the request; ok = FALSE when no usable token is there
Tokens == {[ok |-> FALSE, org |-> 0]} \cup {[ok |-> TRUE, org |-> o] : o \in Orgs}
BoolParams == {"true", "false", "bad"}

DefaultConfig ==
    [Auth |-> TRUE, EnableInternalRulesOrganizations |-> TRUE,
     InternalRulesOrganizations |-> {1},
     UseOrgClustersFallback |-> TRUE, amsClient |-> TRUE]

\* Server.GetAuthToken: (identity, error)
GetAuthToken(req) ==
    IF req.token.ok THEN [org |-> req.token.org, err |-> Nil]
    ELSE [org |-> 0, err |-> "AuthenticationError"]

\* readGetDisabledParam: (value, error); a malformed value is an error
readGetDisabledParam(req) ==
    IF req.disabled = "bad" THEN [value |-> FALSE, err |-> "BadParamError"]
    ELSE [value |-> (req.disabled = "true"), err |-> Nil]

\* readOSDEligible: (value, error); a malformed value reads as false
readOSDEligible(req) ==
    IF req.osd_eligible = "bad" THEN [value |-> FALSE, err |-> "BadParamError"]
    ELSE [value |-> (req.osd_eligible = "true"), err |-> Nil]

(***************************************************************************)
(* Responses written to the client                                         *)
(***************************************************************************)
\* http.ResponseWriter: the responses written to it so far, and whether the
\* connection to the client accepts what is written
NewWriter(ok) == [responses |-> <<>>, ok |-> ok]

Writers == {NewWriter(ok) : ok \in BOOLEAN}

Write(writer, response) == [writer EXCEPT !.responses = Append(@, response)]

\* the error a responses.Send* call on the writer returns
WriteError(writer) == IF writer.ok THEN Nil ELSE "WriteError"

handleServerError(writer, err) == Write(writer, [kind |-> "error", err |-> err])
SendOK(writer, key, data) == Write(writer, [kind |-> "ok", key |-> key, data |-> data])
Send(status, writer, body) == Write(writer, [kind |-> "raw", status |-> status, body |-> body])
SendNotFound(writer, msg) == Write(writer, [kind |-> "notFound", msg |-> msg])

(***************************************************************************)
(* Aggregator answers to a read: the transport outcome, the status code    *)
(* and what the body decodes to.                                           *)
(***************************************************************************)
AggFailureKinds == {"urlError", "otherError", "readError", "status", "badJSON", "nullReport"}

AggAnswer(kind, payload) ==
    [kind |-> kind,
     StatusCode |-> IF kind = "status" THEN 404 ELSE 200,
     Body |-> IF kind = "status" THEN "upstream error body" ELSE "",
     Report |-> payload]

\* mutant: an upstream error status is answered with a synthesized error
readAggregator_SynthesizesError(agg, writer) ==
    CASE agg.kind = "urlError" ->
            [Report |-> Nil, isNil |-> TRUE, successful |-> FALSE, panic |-> FALSE,
             writer |-> handleServerError(writer, "AggregatorServiceUnavailableError")]
      [] agg.kind = "otherError" ->
            [Report |-> Nil, isNil |-> TRUE, successful |-> FALSE, panic |-> FALSE,
             writer |-> handleServerError(writer, "TransportError")]
      [] agg.kind = "readError" ->
            [Report |-> Nil, isNil |-> TRUE, successful |-> FALSE, panic |-> FALSE,
             writer |-> handleServerError(writer, "ReadError")]
      [] agg.kind = "status" ->
            [Report |-> Nil, isNil |-> TRUE, successful |-> FALSE, panic |-> FALSE,
             writer |-> handleServerError(writer, "UpstreamError")]
      [] agg.kind = "badJSON" ->
            [Report |-> Nil, isNil |-> TRUE, successful |-> FALSE, panic |-> FALSE,
             writer |-> handleServerError(writer, "UnmarshalError")]
      [] agg.kind = "nullReport" ->
            [Report |-> Nil, isNil |-> TRUE, successful |-> FALSE, panic |-> TRUE,
             writer |-> writer]
      [] OTHER ->
            [Report |-> agg.Report, isNil |-> FALSE, successful |-> TRUE, panic |-> FALSE,
             writer |-> writer]

\* shared body of the single-cluster reads: (Report, successful, writer, panic)
readAggregator(agg, writer) ==
    CASE agg.kind = "urlError" ->
            [Report |-> Nil, isNil |-> TRUE, successful |-> FALSE, panic |-> FALSE,
             writer |-> handleServerError(writer, "AggregatorServiceUnavailableError")]
      [] agg.kind = "otherError" ->
            [Report |-> Nil, isNil |-> TRUE, successful |-> FALSE, panic |-> FALSE,
             writer |-> handleServerError(writer, "TransportError")]
      [] agg.kind = "readError" ->
            [Report |-> Nil, isNil |-> TRUE, successful |-> FALSE, panic |-> FALSE,
             writer |-> handleServerError(writer, "ReadError")]
      [] agg.kind = "status" ->
            [Report |-> Nil, isNil |-> TRUE, successful |-> FALSE, panic |-> FALSE,
             writer |-> Send(agg.StatusCode, writer, agg.Body)]
      [] agg.kind = "badJSON" ->
            [Report |-> Nil, isNil |-> TRUE, successful |-> FALSE, panic |-> FALSE,
             writer |-> handleServerError(writer, "UnmarshalError")]
      [] agg.kind = "nullReport" ->
            \* the decoded Report pointer is nil and is dereferenced for logging
            [Report |-> Nil, isNil |-> TRUE, successful |-> FALSE, panic |-> TRUE,
             writer |-> writer]
      [] OTHER ->
            [Report |-> agg.Report, isNil |-> FALSE, successful |-> TRUE, panic |-> FALSE,
             writer |-> writer]

readAggregatorReportForClusterID(agg, writer) == readAggregator(agg, writer)

\* httputils.ReadClusterName: writes the error itself when the name is malformed
ReadClusterName(writer, req) ==
    IF req.clusterName \in ClusterNames
    THEN [successful |-> TRUE, writer |-> writer]
    ELSE [successful |-> FALSE, writer |-> handleServerError(writer, "BadClusterName")]

\* fetchAggregatorReport: successful keeps the value ReadClusterName gave it
\* when GetAuthToken fails
fetchAggregatorReport(writer, req) ==
    LET c == ReadClusterName(writer, req)
        t == GetAuthToken(req)
    IN  IF ~c.successful
        THEN [Report |-> Nil, isNil |-> TRUE, successful |-> FALSE, panic |-> FALSE,
              writer |-> c.writer]
        ELSE IF t.err # Nil
        THEN [Report |-> Nil, isNil |-> TRUE, successful |-> TRUE, panic |-> FALSE,
              writer |-> handleServerError(c.writer, t.err)]
        ELSE readAggregatorReportForClusterID(req.agg, c.writer)

\* what a handler leaves behind: the responses written, whether it panicked,
\* and the result of its filterRulesInResponse call when it made one
Outcome(writer, panic, filtered, filter) ==
    [written |-> writer, panic |-> panic, filtered |-> filtered, filter |-> filter]

\* mutant: the partial result of a timed-out filter is sent as a report
reportEndpoint_SendsPartial(writer, req) ==
    LET a == fetchAggregatorReport(writer, req)
        d == readGetDisabledParam(req)
        o == readOSDEligible(req)
    IN  IF a.panic \/ ~a.successful
        THEN Outcome(a.writer, a.panic, FALSE, filterInit)
        ELSE IF d.err # Nil
        THEN Outcome(handleServerError(a.writer, d.err), FALSE, FALSE, filterInit)
        ELSE IF a.isNil
        THEN Outcome(a.writer, TRUE, FALSE, filterInit)
        ELSE
            LET f == filterRulesInResponse(a.Report, o.value, d.value)
                totalRuleCnt == getRuleCount(f.okRules, f.noContentRulesCnt, f.disabledRulesCnt)
                report == [Meta |-> [Count |-> totalRuleCnt], Data |-> f.okRules]
            IN  Outcome(SendOK(a.writer, "report", report), FALSE, TRUE, f)

reportEndpoint(writer, req) ==
    LET a == fetchAggregatorReport(writer, req)
        d == readGetDisabledParam(req)
        o == readOSDEligible(req)
    IN  IF a.panic \/ ~a.successful
        THEN Outcome(a.writer, a.panic, FALSE, filterInit)
        ELSE IF d.err # Nil
        THEN Outcome(handleServerError(a.writer, d.err), FALSE, FALSE, filterInit)
        ELSE IF a.isNil
        THEN \* aggregatorResponse.Report on a nil aggregatorResponse
             Outcome(a.writer, TRUE, FALSE, filterInit)
        ELSE
            LET f == filterRulesInResponse(a.Report, o.value, d.value)
                totalRuleCnt == getRuleCount(f.okRules, f.noContentRulesCnt, f.disabledRulesCnt)
                report == [Meta |-> [Count |-> totalRuleCnt], Data |-> f.okRules]
            IN  IF f.contentError = RuleContentDirectoryTimeoutError
                THEN Outcome(handleServerError(a.writer, f.contentError), FALSE, TRUE, f)
                ELSE Outcome(SendOK(a.writer, "report", report), FALSE, TRUE, f)

(***************************************************************************)
(* Single-rule endpoint                                                    *)
(***************************************************************************)
readAggregatorRuleForClusterID(agg, writer) == readAggregator(agg, writer)

\* readRuleIDWithErrorKey: writes the error itself when the selector is malformed
readRuleIDWithErrorKey(writer, req) ==
    IF req.selectorOK
    THEN [err |-> Nil, writer |-> writer]
    ELSE [err |-> "BadRuleSelector", writer |-> handleServerError(writer, "BadRuleSelector")]

fetchAggregatorReportRule(writer, req) ==
    LET c == ReadClusterName(writer, req)
        s == readRuleIDWithErrorKey(c.writer, req)
        t == GetAuthToken(req)
    IN  IF ~c.successful
        THEN [Report |-> Nil, isNil |-> TRUE, successful |-> FALSE, panic |-> FALSE,
              writer |-> c.writer]
        ELSE IF s.err # Nil
        THEN [Report |-> Nil, isNil |-> TRUE, successful |-> FALSE, panic |-> FALSE,
              writer |-> s.writer]
        ELSE IF t.err # Nil
        THEN [Report |-> Nil, isNil |-> TRUE, successful |-> FALSE, panic |-> FALSE,
              writer |-> handleServerError(s.writer, t.err)]
        ELSE readAggregatorRuleForClusterID(req.agg, s.writer)

\* a SendNotFound the client did not accept is followed by handleServerError
\* on the same writer
handleFetchRuleContentError(writer, err, filtered) ==
    IF err = RuleContentDirectoryTimeoutError
    THEN handleServerError(writer, err)
    ELSE
        LET sent == SendNotFound(writer, "Rule was not found")
        IN  IF WriteError(sent) # Nil
            THEN handleServerError(sent, WriteError(sent))
            ELSE sent

\* checkInternalRulePermissions: the error returned, Nil when access is granted
checkInternalRulePermissions(config, req) ==
    LET t == GetAuthToken(req)
    IN  IF ~config.EnableInternalRulesOrganizations \/ ~config.Auth
        THEN Nil
        ELSE IF t.err # Nil
        THEN t.err
        ELSE IF \E allowedID \in config.InternalRulesOrganizations : t.org = allowedID
        THEN Nil
        ELSE "AuthenticationError"

\* mutant: the rule is sent without the permission check
singleRuleEndpoint_NoPermissionCheck(config, writer, req) ==
    LET a == fetchAggregatorReportRule(writer, req)
        o == readOSDEligible(req)
    IN  IF a.panic \/ ~a.successful
        THEN Outcome(a.writer, a.panic, FALSE, filterInit)
        ELSE
            LET f == FetchRuleContent(a.Report, o.value)
            IN  IF f.err # Nil \/ f.filtered
                THEN Outcome(handleFetchRuleContentError(a.writer, f.err, f.filtered),
                             FALSE, FALSE, filterInit)
                ELSE Outcome(SendOK(a.writer, "report", f.rule), FALSE, FALSE, filterInit)

singleRuleEndpoint(config, writer, req) ==
    LET a == fetchAggregatorReportRule(writer, req)
        o == readOSDEligible(req)
    IN  IF a.panic \/ ~a.successful
        THEN Outcome(a.writer, a.panic, FALSE, filterInit)
        ELSE
            LET f == FetchRuleContent(a.Report, o.value)
                perm == checkInternalRulePermissions(config, req)
            IN  IF f.err # Nil \/ f.filtered
                THEN Outcome(handleFetchRuleContentError(a.writer, f.err, f.filtered),
                             FALSE, FALSE, filterInit)
                ELSE IF f.rule.Internal /\ perm # Nil
                THEN Outcome(handleServerError(a.writer, perm), FALSE, FALSE, filterInit)
                ELSE Outcome(SendOK(a.writer, "report", f.rule), FALSE, FALSE, filterInit)

(***************************************************************************)
(* Aggregator client: the other read operations.  They share the transport *)
(* handling, the body read, the status pass-through and the decode of      *)
(* readAggregator, and differ in what a JSON body without the expected     *)
(* member decodes to.                                                      *)
(***************************************************************************)
\* statuses other than 200 the aggregator answers with, and their bodies
UpstreamStatuses == {201, 404, 500}
UpstreamBodies == {"upstream body 1", "upstream body 2"}

AggStatusAnswer(code, body, payload) ==
    [kind |-> "status", StatusCode |-> code, Body |-> body, Report |-> payload]

\* readAggregatorReportMetainfoForClusterID: a nil Metainfo pointer is returned
\* with the successful flag set
readAggregatorReportMetainfoForClusterID(agg, writer) ==
    IF agg.kind = "nullReport"
    THEN [Report |-> Nil, isNil |-> TRUE, successful |-> TRUE, panic |-> FALSE,
          writer |-> writer]
    ELSE readAggregator(agg, writer)

\* the zero value of ctypes.ClusterReports, what a body of null or {} decodes to
ZeroClusterReports == [ClusterList |-> <<>>, Reports |-> <<>>]

\* readAggregatorReportForClusterList: the body is decoded into a struct value,
\* so a body without the expected members leaves its zero value
readAggregatorReportForClusterList(agg, writer) ==
    IF agg.kind = "nullReport"
    THEN [Report |-> ZeroClusterReports, isNil |-> FALSE, successful |-> TRUE,
          panic |-> FALSE, writer |-> writer]
    ELSE readAggregator(agg, writer)

\* handleReportsResponse: body read, status check, decode
handleReportsResponse(response, writer) ==
    IF response.kind = "nullReport"
    THEN [Report |-> ZeroClusterReports, isNil |-> FALSE, successful |-> TRUE,
          panic |-> FALSE, writer |-> writer]
    ELSE readAggregator(response, writer)

\* readAggregatorReportForClusterListFromBody: the request body is read first
readAggregatorReportForClusterListFromBody(req, agg, writer) ==
    IF ~req.bodyOK
    THEN [Report |-> Nil, isNil |-> TRUE, successful |-> FALSE, panic |-> FALSE,
          writer |-> handleServerError(writer, "ReadError")]
    ELSE IF agg.kind \in {"urlError", "otherError"}
    THEN readAggregator(agg, writer)
    ELSE handleReportsResponse(agg, writer)

\* what the aggregator can answer to each operation; an answer with another
\* status than 200 may carry a body that would decode to a payload
AggAnswers(payloads, nilPayload) ==
    {AggAnswer(k, nilPayload) : k \in AggFailureKinds} \cup
    {AggStatusAnswer(c, b, p) : c \in UpstreamStatuses, b \in UpstreamBodies,
                                p \in payloads \cup {nilPayload}} \cup
    {AggAnswer("ok", p) : p \in payloads}

Metainfos == {"metainfo 1", "metainfo 2"}
ClusterReports ==
    {[ClusterList |-> l, Reports |-> l] : l \in SeqsUpTo(ClusterNames, MaxClusters) \ {<<>>}}

(***************************************************************************)
(* The handlers of the metainfo request and of the two multi-cluster       *)
(* requests                                                                *)
(***************************************************************************)
\* fetchAggregatorReportMetainfo: successful keeps the value ReadClusterName
\* gave it when GetAuthToken fails
fetchAggregatorReportMetainfo(writer, req) ==
    LET c == ReadClusterName(writer, req)
        t == GetAuthToken(req)
    IN  IF ~c.successful
        THEN [Report |-> Nil, isNil |-> TRUE, successful |-> FALSE, panic |-> FALSE,
              writer |-> c.writer]
        ELSE IF t.err # Nil
        THEN [Report |-> Nil, isNil |-> TRUE, successful |-> TRUE, panic |-> FALSE,
              writer |-> handleServerError(c.writer, t.err)]
        ELSE readAggregatorReportMetainfoForClusterID(req.agg, c.writer)

\* a nil metainfo is sent as null
reportMetainfoEndpoint(writer, req) ==
    LET a == fetchAggregatorReportMetainfo(writer, req)
    IN  IF ~a.successful
        THEN Outcome(a.writer, a.panic, FALSE, filterInit)
        ELSE Outcome(SendOK(a.writer, "metainfo", IF a.isNil THEN Nil ELSE a.Report),
                     a.panic, FALSE, filterInit)

\* httputils.ReadClusterListFromPath: writes the error itself when the list is
\* malformed
ReadClusterListFromPath(writer, req) ==
    IF req.clusterListOK
    THEN [successful |-> TRUE, writer |-> writer]
    ELSE [successful |-> FALSE, writer |-> handleServerError(writer, "BadClusterList")]

fetchAggregatorReports(writer, req) ==
    LET c == ReadClusterListFromPath(writer, req)
        t == GetAuthToken(req)
    IN  IF ~c.successful
        THEN [Report |-> ZeroClusterReports, isNil |-> TRUE, successful |-> FALSE,
              panic |-> FALSE, writer |-> c.writer]
        ELSE IF t.err # Nil
        THEN [Report |-> ZeroClusterReports, isNil |-> TRUE, successful |-> FALSE,
              panic |-> FALSE, writer |-> handleServerError(c.writer, t.err)]
        ELSE
            LET a == readAggregatorReportForClusterList(req.agg, c.writer)
            IN  IF ~a.successful
                THEN [Report |-> ZeroClusterReports, isNil |-> TRUE, successful |-> FALSE,
                      panic |-> a.panic, writer |-> a.writer]
                ELSE a

reportForListOfClustersEndpoint(writer, req) ==
    LET a == fetchAggregatorReports(writer, req)
    IN  IF ~a.successful
        THEN Outcome(a.writer, a.panic, FALSE, filterInit)
        ELSE Outcome(Send(200, a.writer, a.Report), a.panic, FALSE, filterInit)

fetchAggregatorReportsUsingRequestBodyClusterList(writer, req) ==
    LET t == GetAuthToken(req)
    IN  IF t.err # Nil
        THEN [Report |-> ZeroClusterReports, isNil |-> TRUE, successful |-> FALSE,
              panic |-> FALSE, writer |-> handleServerError(writer, t.err)]
        ELSE
            LET a == readAggregatorReportForClusterListFromBody(req, req.agg, writer)
            IN  IF ~a.successful
                THEN [Report |-> ZeroClusterReports, isNil |-> TRUE, successful |-> FALSE,
                      panic |-> a.panic, writer |-> a.writer]
                ELSE a

reportForListOfClustersPayloadEndpoint(writer, req) ==
    LET a == fetchAggregatorReportsUsingRequestBodyClusterList(writer, req)
    IN  IF ~a.successful
        THEN Outcome(a.writer, a.panic, FALSE, filterInit)
        ELSE Outcome(Send(200, a.writer, a.Report), a.panic, FALSE, filterInit)

(***************************************************************************)
(* Overview calculator.  The answer to the report read of one cluster      *)
(* carries the hit count the aggregator states in Meta.Count next to the   *)
(* list of hits.                                                           *)
(***************************************************************************)
OverviewAnswer(agg, count) ==
    [kind |-> agg.kind, StatusCode |-> agg.StatusCode, Body |-> agg.Body,
     Report |-> agg.Report, Count |-> count]

\* totalRisks and tags of getOverviewPerCluster, the error that ended the loop
\* and the content lookups made
overviewInit == [totalRisks |-> <<>>, tags |-> <<>>, err |-> Nil, lookups |-> <<>>]

\* mutant: a lookup that times out is skipped like a missing rule
overviewStep_TimeoutSkipped(acc, rule) ==
    LET r == GetRuleWithErrorKeyContent(rule.Module, rule.ErrorKey)
        looked == [acc EXCEPT !.lookups = Append(@, rule.ErrorKey)]
    IN  IF r.err # Nil
        THEN looked
        ELSE [looked EXCEPT !.totalRisks = Append(@, r.content.TotalRisk),
                            !.tags = @ \o r.content.Tags]

\* mutant: disabled hits are left out of the overview
overviewStep_SkipsDisabled(acc, rule) ==
    LET r == GetRuleWithErrorKeyContent(rule.Module, rule.ErrorKey)
        looked == [acc EXCEPT !.lookups = Append(@, rule.ErrorKey)]
    IN  IF rule.Disabled
        THEN acc
        ELSE IF r.err # Nil
        THEN IF r.err = RuleContentDirectoryTimeoutError
             THEN [looked EXCEPT !.err = r.err]
             ELSE looked
        ELSE [looked EXCEPT !.totalRisks = Append(@, r.content.TotalRisk),
                            !.tags = @ \o r.content.Tags]

\* one iteration of the loop over aggregatorResponse.Report
overviewStep(acc, rule) ==
    LET r == GetRuleWithErrorKeyContent(rule.Module, rule.ErrorKey)
        looked == [acc EXCEPT !.lookups = Append(@, rule.ErrorKey)]
    IN  IF r.err # Nil
        THEN IF r.err = RuleContentDirectoryTimeoutError
             THEN [looked EXCEPT !.err = r.err]
             ELSE looked
        ELSE [looked EXCEPT !.totalRisks = Append(@, r.content.TotalRisk),
                            !.tags = @ \o r.content.Tags]

\* the loop: it ends after the last hit, or at the hit whose lookup timed out
RECURSIVE overviewLoop(_, _, _)
overviewLoop(acc, report, i) ==
    IF i > Len(report) \/ acc.err # Nil
    THEN acc
    ELSE overviewLoop(overviewStep(acc, report[i]), report, i + 1)

\* the value standing for a nil *types.ClusterOverview (isNil tells it apart
\* from an overview with empty sequences)
NoOverview == [TotalRisksHit |-> <<>>, TagsHit |-> <<>>]

OverviewResult(overview, isNil, err, panic, writer, lookups) ==
    [overview |-> overview, isNil |-> isNil, err |-> err, panic |-> panic,
     writer |-> writer, lookups |-> lookups]

\* mutant: an overview without any total-risk score is returned as nil
getOverviewPerCluster_NilWhenEmpty(agg, writer) ==
    LET a == readAggregatorReportForClusterID(agg, writer)
        o == overviewLoop(overviewInit, agg.Report, 1)
    IN  IF a.panic
        THEN OverviewResult(NoOverview, TRUE, Nil, TRUE, a.writer, <<>>)
        ELSE IF ~a.successful
        THEN OverviewResult(NoOverview, TRUE, Nil, FALSE, a.writer, <<>>)
        ELSE IF agg.Count = 0
        THEN OverviewResult(NoOverview, TRUE, Nil, FALSE, a.writer, <<>>)
        ELSE IF o.err # Nil
        THEN OverviewResult(NoOverview, TRUE, o.err, FALSE, a.writer, o.lookups)
        ELSE IF o.totalRisks = <<>>
        THEN OverviewResult(NoOverview, TRUE, Nil, FALSE, a.writer, o.lookups)
        ELSE OverviewResult([TotalRisksHit |-> o.totalRisks, TagsHit |-> o.tags],
                            FALSE, Nil, FALSE, a.writer, o.lookups)

\* getOverviewPerCluster: (overview, error), what it wrote and looked up
getOverviewPerCluster(agg, writer) ==
    LET a == readAggregatorReportForClusterID(agg, writer)
        o == overviewLoop(overviewInit, agg.Report, 1)
    IN  IF a.panic
        THEN OverviewResult(NoOverview, TRUE, Nil, TRUE, a.writer, <<>>)
        ELSE IF ~a.successful
        THEN OverviewResult(NoOverview, TRUE, Nil, FALSE, a.writer, <<>>)
        ELSE IF agg.Count = 0
        THEN OverviewResult(NoOverview, TRUE, Nil, FALSE, a.writer, <<>>)
        ELSE IF o.err # Nil
        THEN OverviewResult(NoOverview, TRUE, o.err, FALSE, a.writer, o.lookups)
        ELSE OverviewResult([TotalRisksHit |-> o.totalRisks, TagsHit |-> o.tags],
                            FALSE, Nil, FALSE, a.writer, o.lookups)

\* the handler computing the overview of an organization: one call of
\* getOverviewPerCluster per cluster, all on the request's writer; an error
\* ends the request with an error response, a nil overview is skipped
overviewAcc(writer) ==
    [writer |-> writer, clustersHits |-> 0, totalRisks |-> <<>>, tags |-> <<>>,
     stopped |-> FALSE, panic |-> FALSE]

\* one cluster of the organization
overviewClusterStep(acc, agg) ==
    LET o == getOverviewPerCluster(agg, acc.writer)
    IN  IF o.panic
        THEN [acc EXCEPT !.writer = o.writer, !.stopped = TRUE, !.panic = TRUE]
        ELSE IF o.err # Nil
        THEN [acc EXCEPT !.writer = handleServerError(o.writer, o.err), !.stopped = TRUE]
        ELSE IF o.isNil
        THEN [acc EXCEPT !.writer = o.writer]
        ELSE [acc EXCEPT !.writer = o.writer, !.clustersHits = @ + 1,
                         !.totalRisks = @ \o o.overview.TotalRisksHit,
                         !.tags = @ \o o.overview.TagsHit]

RECURSIVE overviewClusters(_, _, _)
overviewClusters(acc, aggs, i) ==
    IF i > Len(aggs) \/ acc.stopped
    THEN acc
    ELSE overviewClusters(overviewClusterStep(acc, aggs[i]), aggs, i + 1)

overviewEndpoint(writer, aggs) ==
    LET acc == overviewClusters(overviewAcc(writer), aggs, 1)
    IN  IF acc.stopped
        THEN acc
        ELSE [acc EXCEPT !.writer =
                SendOK(acc.writer, "overview",
                       [clustersHits |-> acc.clustersHits, totalRisks |-> acc.totalRisks,
                        tags |-> acc.tags])]

(***************************************************************************)
(* Proxy dispatcher.  A request (a response) is the list of rewrites made  *)
(* to it so far, so the order in which modifiers ran can be read off it.   *)
(* A modifier appends its name, or returns its error.                      *)
(***************************************************************************)
AggregatorBaseEndpoint == "http://aggregator"
ContentBaseEndpoint == "http://content"
BaseURLs == {AggregatorBaseEndpoint, ContentBaseEndpoint, "http://other"}

\* *url.Error, the error type of http.Client.Do and of url.Parse
URLError == "url.Error"

RequestModifiers ==
    {[name |-> "a", err |-> Nil], [name |-> "b", err |-> Nil],
     [name |-> "c", err |-> "ParamsParsingError"],
     [name |-> "d", err |-> "AuthenticationError"]}

ResponseModifiers ==
    {[name |-> "x", err |-> Nil], [name |-> "y", err |-> Nil],
     [name |-> "z", err |-> "ResponseModifierError"],
     [name |-> "u", err |-> URLError]}

\* modifier(request): (request, error)
applyModifier(modifier, x) ==
    IF modifier.err # Nil
    THEN [value |-> <<>>, err |-> modifier.err]
    ELSE [value |-> Append(x, modifier.name), err |-> Nil]

\* the value being rewritten, the error that ended the chain, and the calls
\* made: which modifier, on which input
modifyInit(x) == [value |-> x, err |-> Nil, applied |-> <<>>]

modifyStep(acc, modifier) ==
    LET r == applyModifier(modifier, acc.value)
        called == Append(acc.applied, [modifier |-> modifier.name, input |-> acc.value])
    IN  [value |-> r.value, err |-> r.err, applied |-> called]

RECURSIVE modifyLoop(_, _, _)
modifyLoop(acc, modifiers, i) ==
    IF i > Len(modifiers) \/ acc.err # Nil
    THEN acc
    ELSE modifyLoop(modifyStep(acc, modifiers[i]), modifiers, i + 1)

Reverse(q) == [i \in 1..Len(q) |-> q[Len(q) + 1 - i]]

\* mutant: the chain is applied last modifier first
modifyRequest_Reversed(requestModifiers, req) ==
    modifyLoop(modifyInit(req), Reverse(requestModifiers), 1)

modifyRequest(requestModifiers, req) ==
    modifyLoop(modifyInit(req), requestModifiers, 1)

modifyResponse(responseModifiers, response) ==
    modifyLoop(modifyInit(response), responseModifiers, 1)

\* composeEndpoint: url.Parse of the base address plus the request URI
composeEndpoint(baseEndpoint, req, uriOK) ==
    IF uriOK THEN [endpointURL |-> [base |-> baseEndpoint, req |-> req], err |-> Nil]
    ELSE [endpointURL |-> [base |-> baseEndpoint, req |-> <<>>], err |-> URLError]

\* sendRequest: (response, body, error) and the response modifiers it called
sendRequest(upstream, options) ==
    LET m == IF options.present
             THEN modifyResponse(options.ResponseModifiers, <<>>)
             ELSE modifyInit(<<>>)
        none == [StatusCode |-> 0, body |-> [Body |-> "", rewrites |-> <<>>]]
    IN  IF upstream.kind = "urlError"
        THEN [response |-> none, err |-> URLError, applied |-> <<>>]
        ELSE IF m.err # Nil
        THEN [response |-> none, err |-> m.err, applied |-> m.applied]
        ELSE IF upstream.kind = "readError"
        THEN [response |-> none, err |-> "ReadError", applied |-> m.applied]
        ELSE [response |-> [StatusCode |-> upstream.StatusCode,
                            body |-> [Body |-> upstream.Body, rewrites |-> m.value]],
              err |-> Nil, applied |-> m.applied]

evaluateProxyError(writer, err, baseURL) ==
    IF err = URLError
    THEN CASE baseURL = AggregatorBaseEndpoint ->
                handleServerError(writer, "AggregatorServiceUnavailableError")
           [] baseURL = ContentBaseEndpoint ->
                handleServerError(writer, "ContentServiceUnavailableError")
           [] OTHER -> handleServerError(writer, err)
    ELSE handleServerError(writer, err)

\* the methods a request reaches http.NewRequest with: a valid one, and one
\* that is not a valid HTTP token
Methods == {"GET", "BAD METHOD"}

\* http.NewRequest(request.Method, endpointURL.String(), request.Body)
NewRequest(method, url) ==
    IF method = "BAD METHOD"
    THEN [req |-> url, err |-> "net/http: invalid method"]
    ELSE [req |-> url, err |-> Nil]

ProxyResult(writer, panic, forwarded, requestCalls, responseCalls) ==
    [written |-> writer, panic |-> panic, forwarded |-> forwarded,
     requestCalls |-> requestCalls, responseCalls |-> responseCalls]

\* the handler proxyTo returns, run on one request
proxyTo(baseURL, options, writer, req) ==
    LET m == IF options.present
             THEN modifyRequest(options.RequestModifiers, <<>>)
             ELSE modifyInit(<<>>)
        e == composeEndpoint(baseURL, m.value, req.uriOK)
        n == NewRequest(req.Method, e.endpointURL)
        s == sendRequest(req.upstream, options)
    IN  IF m.err # Nil
        THEN ProxyResult(handleServerError(writer, m.err), FALSE, <<>>, m.applied, <<>>)
        ELSE IF e.err # Nil
        THEN ProxyResult(handleServerError(writer, e.err), FALSE, <<>>, m.applied, <<>>)
        ELSE IF n.err # Nil
        THEN \* panic(err): nothing is written and nothing is sent upstream
             ProxyResult(writer, TRUE, <<>>, m.applied, <<>>)
        ELSE IF s.err # Nil
        THEN ProxyResult(evaluateProxyError(writer, s.err, baseURL), FALSE, <<n.req>>,
                         m.applied, s.applied)
        ELSE
            LET sent == Send(s.response.StatusCode, writer, s.response.body)
            IN  IF WriteError(sent) # Nil
                THEN ProxyResult(handleServerError(sent, WriteError(sent)), FALSE,
                                 <<n.req>>, m.applied, s.applied)
                ELSE ProxyResult(sent, FALSE, <<n.req>>, m.applied, s.applied)

NoOptions == [present |-> FALSE, RequestModifiers |-> <<>>, ResponseModifiers |-> <<>>]

ProxyOptions ==
    {NoOptions} \cup
    [present : {TRUE}, RequestModifiers : SeqsUpTo(RequestModifiers, MaxModifiers),
     ResponseModifiers : SeqsUpTo(ResponseModifiers, MaxModifiers)]

\* what the target does with the forwarded request
Upstreams ==
    {[kind |-> "urlError", StatusCode |-> 0, Body |-> ""],
     [kind |-> "readError", StatusCode |-> 200, Body |-> ""],
     [kind |-> "ok", StatusCode |-> 200, Body |-> "upstream body 1"],
     [kind |-> "ok", StatusCode |-> 404, Body |-> "upstream body 2"]}

ChainFails(modifiers) == \E i \in 1..Len(modifiers) : modifiers[i].err # Nil

\* a request that ends before an input is read carries the default for it
ProxyRequests ==
    {r \in [baseURL : BaseURLs, options : ProxyOptions, uriOK : BOOLEAN,
            Method : Methods, upstream : Upstreams] :
        LET rejected == ChainFails(r.options.RequestModifiers) \/ ~r.uriOK
            notForwarded == rejected \/ r.Method # "GET"
        IN  /\ ChainFails(r.options.RequestModifiers) => r.uriOK
            /\ rejected => r.Method = "GET"
            /\ notForwarded => r.upstream.kind = "urlError"
            /\ r.upstream.kind = "urlError" => r.options.ResponseModifiers = <<>>}

(***************************************************************************)
(* Request sets.  A request that is rejected before an input is read       *)
(* carries the default for that input.                                     *)
(***************************************************************************)
ReportAnswers ==
    {AggAnswer(k, <<>>) : k \in AggFailureKinds} \cup {AggAnswer("ok", r) : r \in Reports}

RuleAnswers ==
    {AggAnswer(k, Nil) : k \in AggFailureKinds} \cup {AggAnswer("ok", r) : r \in RuleOnReport}

ReportRequests ==
    {r \in [clusterName : ClusterNames \cup {"bad"}, token : Tokens, agg : ReportAnswers,
            disabled : BoolParams, osd_eligible : BoolParams] :
        /\ r.clusterName \in {"c1", "bad"}
        /\ r.clusterName = "bad" => (~r.token.ok /\ r.disabled = "false")
        /\ ~r.token.ok => (r.agg = AggAnswer("ok", <<>>) /\ r.osd_eligible = "false")
        /\ r.agg.kind # "ok" => (r.disabled = "false" /\ r.osd_eligible = "false")
        /\ r.disabled = "bad" => r.osd_eligible = "false"}

RuleRequests ==
    {r \in [clusterName : ClusterNames \cup {"bad"}, selectorOK : BOOLEAN, token : Tokens,
            agg : RuleAnswers, osd_eligible : BoolParams] :
        /\ r.clusterName \in {"c1", "bad"}
        /\ r.clusterName = "bad" => r.selectorOK
        /\ (r.clusterName = "bad" \/ ~r.selectorOK) => ~r.token.ok
        /\ ~r.token.ok => r.agg = AggAnswer("urlError", Nil)
        /\ r.agg.kind # "ok" => r.osd_eligible = "false"}

(***************************************************************************)
(* Cluster resolver                                                        *)
(***************************************************************************)
DisplayNameOf == [c \in ClusterNames |-> IF c = "c1" THEN "first" ELSE "second"]

Range(q) == {q[i] : i \in 1..Len(q)}

ClusterLists == SeqsUpTo(ClusterNames, MaxClusters)

\* amsClient.GetClustersForOrganization: (clusterInfoList, clusterNamesMap, err)
AmsAnswers ==
    {[err |-> "AMSError", clusterInfoList |-> <<>>, clusterNamesMap |-> <<>>]} \cup
    {[err |-> Nil,
      clusterInfoList |-> [i \in 1..Len(ids) |-> [ID |-> ids[i], DisplayName |-> DisplayNameOf[ids[i]]]],
      clusterNamesMap |-> [c \in Range(ids) |-> DisplayNameOf[c]]] : ids \in ClusterLists}

\* the aggregator's answer to the clusters-for-organization request; a body that
\* fails to decode may still have filled in part of the cluster list
AggClusterAnswers ==
    {[kind |-> k, Clusters |-> <<>>] : k \in {"urlError", "otherError"}} \cup
    {[kind |-> k, Clusters |-> ids] : k \in {"decodeError", "ok"}, ids \in ClusterLists}

\* types.GetClusterNames
GetClusterNames(clusterInfoList) == [i \in 1..Len(clusterInfoList) |-> clusterInfoList[i].ID]

getClusterIDsFromAggregator(agg) ==
    CASE agg.kind = "urlError"    -> [clusters |-> <<>>, err |-> "AggregatorServiceUnavailableError"]
      [] agg.kind = "otherError"  -> [clusters |-> <<>>, err |-> "TransportError"]
      [] agg.kind = "decodeError" -> [clusters |-> agg.Clusters, err |-> "DecodeError"]
      [] OTHER                    -> [clusters |-> agg.Clusters, err |-> Nil]

AmsNotInitialized == "amsclient not initialized"

\* mutant: a successful AMS answer is topped up with the aggregator's list
readClusterIDsForOrgID_Merges(config, ams, agg) ==
    LET tried == config.amsClient
        amsCalls == IF tried THEN <<"ams">> ELSE <<>>
        a == getClusterIDsFromAggregator(agg)
    IN  IF tried /\ ams.err = Nil
        THEN [clusterNames |-> GetClusterNames(ams.clusterInfoList) \o a.clusters, err |-> Nil,
              calls |-> Append(amsCalls, "aggregator")]
        ELSE IF ~config.UseOrgClustersFallback
        THEN [clusterNames |-> <<>>, err |-> AmsNotInitialized, calls |-> amsCalls]
        ELSE [clusterNames |-> a.clusters, err |-> a.err, calls |-> Append(amsCalls, "aggregator")]

\* readClusterIDsForOrgID: (cluster names, error) and the services it called
readClusterIDsForOrgID(config, ams, agg) ==
    LET tried == config.amsClient
        amsCalls == IF tried THEN <<"ams">> ELSE <<>>
        a == getClusterIDsFromAggregator(agg)
    IN  IF tried /\ ams.err = Nil
        THEN [clusterNames |-> GetClusterNames(ams.clusterInfoList), err |-> Nil,
              calls |-> amsCalls]
        ELSE IF ~config.UseOrgClustersFallback
        THEN [clusterNames |-> <<>>, err |-> AmsNotInitialized, calls |-> amsCalls]
        ELSE [clusterNames |-> a.clusters, err |-> a.err, calls |-> Append(amsCalls, "aggregator")]

\* the zero value of types.ClusterInfo
ZeroClusterInfo == [ID |-> "", DisplayName |-> ""]

\* the fallback's result: make([]ClusterInfo, len(clusterIDs)) followed by one
\* append per cluster ID, and a display-name map of empty strings
fallbackClusters(clusterIDs) ==
    [clusterInfo |-> [i \in 1..Len(clusterIDs) |-> ZeroClusterInfo] \o
                     [i \in 1..Len(clusterIDs) |-> [ID |-> clusterIDs[i], DisplayName |-> ""]],
     clusterNamesMap |-> [c \in Range(clusterIDs) |-> ""]]

\* mutant: the fallback switch is not consulted
readClustersForOrgID_IgnoresFallbackSwitch(config, ams, agg) ==
    LET tried == config.amsClient
        amsCalls == IF tried THEN <<"ams">> ELSE <<>>
        a == getClusterIDsFromAggregator(agg)
        fb == fallbackClusters(a.clusters)
    IN  IF tried /\ ams.err = Nil
        THEN [clusterInfo |-> ams.clusterInfoList, clusterNamesMap |-> ams.clusterNamesMap,
              err |-> Nil, calls |-> amsCalls]
        ELSE IF a.err # Nil
        THEN [clusterInfo |-> <<>>, clusterNamesMap |-> <<>>, err |-> a.err,
              calls |-> Append(amsCalls, "aggregator")]
        ELSE [clusterInfo |-> fb.clusterInfo, clusterNamesMap |-> fb.clusterNamesMap,
              err |-> Nil, calls |-> Append(amsCalls, "aggregator")]

\* readClustersForOrgID: (cluster records, display-name map, error) and the
\* services it called
readClustersForOrgID(config, ams, agg) ==
    LET tried == config.amsClient
        amsCalls == IF tried THEN <<"ams">> ELSE <<>>
        a == getClusterIDsFromAggregator(agg)
        fb == fallbackClusters(a.clusters)
    IN  IF tried /\ ams.err = Nil
        THEN [clusterInfo |-> ams.clusterInfoList, clusterNamesMap |-> ams.clusterNamesMap,
              err |-> Nil, calls |-> amsCalls]
        ELSE IF ~config.UseOrgClustersFallback
        THEN [clusterInfo |-> <<>>, clusterNamesMap |-> <<>>, err |-> AmsNotInitialized,
              calls |-> amsCalls]
        ELSE IF a.err # Nil
        THEN [clusterInfo |-> <<>>, clusterNamesMap |-> <<>>, err |-> a.err,
              calls |-> Append(amsCalls, "aggregator")]
        ELSE [clusterInfo |-> fb.clusterInfo, clusterNamesMap |-> fb.clusterNamesMap,
              err |-> Nil, calls |-> Append(amsCalls, "aggregator")]

ResolverRequests == [ams : AmsAnswers, agg : AggClusterAnswers]

(***************************************************************************)
(* Rule-group configuration: the refresher publishes on three channels,    *)
(* getGroupsConfig reads them.  A configuration is named by its version;   *)
(* "empty" is the empty list getGroupsConfig starts from, Nil a nil list.  *)
(***************************************************************************)
ChanCap == 1
GroupConfigs == {Nil, "v1", "v2"}
EmptyGroups == "empty"
NoGroupsRetrieved == "no groups retrieved"
ContentServiceError == "ContentServiceError"
Readers == 1..NumReaders

NoPublish == [kind |-> "none", value |-> EmptyGroups]
ReaderIdle == [pc |-> "idle", ruleGroups |-> EmptyGroups, err |-> Nil,
               atCall |-> NoPublish, atReturn |-> NoPublish]

GroupsInit ==
    /\ ErrorFoundChannel = <<>>
    /\ ErrorChannel = <<>>
    /\ GroupsChannel = <<>>
    /\ refresher = [pc |-> "refresh", failed |-> FALSE, value |-> EmptyGroups]
    /\ reader = [r \in Readers |-> ReaderIdle]
    /\ published = NoPublish

\* the refresher fetched the groups: it failed, or it got a configuration
Refresh ==
    /\ refresher.pc = "refresh"
    /\ \/ refresher' = [pc |-> "sendFlag", failed |-> TRUE, value |-> ContentServiceError]
       \/ \E g \in GroupConfigs :
            refresher' = [pc |-> "sendFlag", failed |-> FALSE, value |-> g]
    /\ UNCHANGED <<Config, callVars, ErrorFoundChannel, ErrorChannel, GroupsChannel,
                   reader, published>>

\* errorFoundChannel <- failed
SendFlag ==
    /\ refresher.pc = "sendFlag"
    /\ Len(ErrorFoundChannel) < ChanCap
    /\ ErrorFoundChannel' = Append(ErrorFoundChannel, refresher.failed)
    /\ refresher' = [refresher EXCEPT !.pc = "sendValue"]
    /\ UNCHANGED <<Config, callVars, ErrorChannel, GroupsChannel, reader, published>>

\* errorChannel <- err, or groupsChannel <- groups: the publish is complete
SendValue ==
    /\ refresher.pc = "sendValue"
    /\ IF refresher.failed
       THEN /\ Len(ErrorChannel) < ChanCap
            /\ ErrorChannel' = Append(ErrorChannel, refresher.value)
            /\ UNCHANGED GroupsChannel
       ELSE /\ Len(GroupsChannel) < ChanCap
            /\ GroupsChannel' = Append(GroupsChannel, refresher.value)
            /\ UNCHANGED ErrorChannel
    /\ published' = [kind |-> IF refresher.failed THEN "error" ELSE "groups",
                     value |-> refresher.value]
    /\ refresher' = [refresher EXCEPT !.pc = "refresh"]
    /\ UNCHANGED <<Config, callVars, ErrorFoundChannel, reader>>

\* getGroupsConfig, the select on ErrorFoundChannel with its default branch
getGroupsConfig_Select(r) ==
    /\ reader[r].pc = "idle"
    /\ IF ErrorFoundChannel # <<>>
       THEN /\ ErrorFoundChannel' = Tail(ErrorFoundChannel)
            /\ reader' = [reader EXCEPT ![r] =
                    [@ EXCEPT !.pc = IF Head(ErrorFoundChannel) THEN "recvError" ELSE "recvGroups",
                              !.atCall = published]]
       ELSE /\ UNCHANGED ErrorFoundChannel
            /\ reader' = [reader EXCEPT ![r] =
                    [pc |-> "done", ruleGroups |-> EmptyGroups, err |-> Nil,
                     atCall |-> published, atReturn |-> published]]
    /\ UNCHANGED <<Config, callVars, ErrorChannel, GroupsChannel, refresher, published>>

\* getGroupsConfig, err = <-server.ErrorChannel
getGroupsConfig_RecvError(r) ==
    /\ reader[r].pc = "recvError"
    /\ ErrorChannel # <<>>
    /\ ErrorChannel' = Tail(ErrorChannel)
    /\ reader' = [reader EXCEPT ![r] =
            [@ EXCEPT !.pc = "done", !.ruleGroups = Nil, !.err = Head(ErrorChannel),
                      !.atReturn = published]]
    /\ UNCHANGED <<Config, callVars, ErrorFoundChannel, GroupsChannel, refresher, published>>

\* getGroupsConfig, groupsConfig := <-server.GroupsChannel
getGroupsConfig_RecvGroups(r) ==
    /\ reader[r].pc = "recvGroups"
    /\ GroupsChannel # <<>>
    /\ GroupsChannel' = Tail(GroupsChannel)
    /\ reader' = [reader EXCEPT ![r] =
            IF Head(GroupsChannel) = Nil
            THEN [@ EXCEPT !.pc = "done", !.ruleGroups = Nil, !.err = NoGroupsRetrieved,
                           !.atReturn = published]
            ELSE [@ EXCEPT !.pc = "done", !.ruleGroups = Head(GroupsChannel), !.err = Nil,
                           !.atReturn = published]]
    /\ UNCHANGED <<Config, callVars, ErrorFoundChannel, ErrorChannel, refresher, published>>

\* the handler is finished with the result; it may call again
getGroupsConfig_Return(r) ==
    /\ reader[r].pc = "done"
    /\ reader' = [reader EXCEPT ![r] = ReaderIdle]
    /\ UNCHANGED <<Config, callVars, ErrorFoundChannel, ErrorChannel, GroupsChannel,
                   refresher, published>>

(***************************************************************************)
(* Sequential operations: one runs to completion from "idle"               *)
(***************************************************************************)
CallIdle ==
    /\ pc = "idle"
    /\ op = "none"
    /\ request = Nil
    /\ ret = Nil
    /\ written = <<>>
    /\ calls = <<>>

Finish(name, req, result, out, made) ==
    /\ pc' = "done"
    /\ op' = name
    /\ request' = req
    /\ ret' = result
    /\ written' = out
    /\ calls' = made
    /\ UNCHANGED <<Config, groupVars>>

ReportEndpoint ==
    /\ pc = "idle"
    /\ \E writer \in Writers, req \in ReportRequests :
        LET o == reportEndpoint(writer, req)
        IN  Finish("reportEndpoint", req, o, o.written.responses, o.filter.lookups)

SingleRuleEndpoint ==
    /\ pc = "idle"
    /\ \E writer \in Writers, req \in RuleRequests :
        LET o == singleRuleEndpoint(Config, writer, req)
        IN  Finish("singleRuleEndpoint", req, o, o.written.responses, <<>>)

FilterRulesInResponse ==
    /\ pc = "idle"
    /\ \E aggregatorReport \in Reports, filterOSD \in BOOLEAN, getDisabled \in BOOLEAN :
        LET f == filterRulesInResponse(aggregatorReport, filterOSD, getDisabled)
        IN  Finish("filterRulesInResponse",
                   [aggregatorReport |-> aggregatorReport, filterOSD |-> filterOSD,
                    getDisabled |-> getDisabled],
                   f, <<>>, f.lookups)

\* the rules FetchRuleContent can produce
EnrichedRules ==
    {FetchRuleContent(h, FALSE).rule :
        h \in {x \in RuleOnReport : RuleContentDirectory[x.ErrorKey].status = "found"}}

GetRuleCount ==
    /\ pc = "idle"
    /\ \E visibleRules \in SeqsUpTo(EnrichedRules, MaxHits),
          noContentRulesCnt \in 0..MaxCount, disabledRulesCnt \in 0..MaxCount :
        Finish("getRuleCount",
               [visibleRules |-> visibleRules, noContentRulesCnt |-> noContentRulesCnt,
                disabledRulesCnt |-> disabledRulesCnt],
               getRuleCount(visibleRules, noContentRulesCnt, disabledRulesCnt), <<>>, <<>>)

ReadClusterIDsForOrgID ==
    /\ pc = "idle"
    /\ \E req \in ResolverRequests :
        LET r == readClusterIDsForOrgID(Config, req.ams, req.agg)
        IN  Finish("readClusterIDsForOrgID", req, r, <<>>, r.calls)

ReadClustersForOrgID ==
    /\ pc = "idle"
    /\ \E req \in ResolverRequests :
        LET r == readClustersForOrgID(Config, req.ams, req.agg)
        IN  Finish("readClustersForOrgID", req, r, <<>>, r.calls)

\* the next call starts from a fresh writer
NextRequest ==
    /\ pc = "done"
    /\ pc' = "idle"
    /\ op' = "none"
    /\ request' = Nil
    /\ ret' = Nil
    /\ written' = <<>>
    /\ calls' = <<>>
    /\ UNCHANGED <<Config, groupVars>>

(***************************************************************************)
(* Operations of the aggregator client, the overview calculator and the    *)
(* proxy dispatcher                                                        *)
(***************************************************************************)
ReadResult(name, agg, r) == Finish(name, [agg |-> agg], r, r.writer.responses, <<>>)

ReadAggregatorReportForClusterID ==
    /\ pc = "idle"
    /\ \E writer \in Writers, agg \in AggAnswers(Reports, <<>>) :
        ReadResult("readAggregatorReportForClusterID", agg,
                   readAggregatorReportForClusterID(agg, writer))

ReadAggregatorReportMetainfoForClusterID ==
    /\ pc = "idle"
    /\ \E writer \in Writers, agg \in AggAnswers(Metainfos, Nil) :
        ReadResult("readAggregatorReportMetainfoForClusterID", agg,
                   readAggregatorReportMetainfoForClusterID(agg, writer))

ReadAggregatorReportForClusterList ==
    /\ pc = "idle"
    /\ \E writer \in Writers, agg \in AggAnswers(ClusterReports, ZeroClusterReports) :
        ReadResult("readAggregatorReportForClusterList", agg,
                   readAggregatorReportForClusterList(agg, writer))

ReadAggregatorReportForClusterListFromBody ==
    /\ pc = "idle"
    /\ \E writer \in Writers, agg \in AggAnswers(ClusterReports, ZeroClusterReports),
          bodyOK \in BOOLEAN :
        /\ ~bodyOK => agg = AggAnswer("urlError", ZeroClusterReports)
        /\ LET r == readAggregatorReportForClusterListFromBody([bodyOK |-> bodyOK], agg, writer)
           IN  Finish("readAggregatorReportForClusterListFromBody",
                      [agg |-> agg, bodyOK |-> bodyOK], r, r.writer.responses, <<>>)

\* the value standing for a nil *ctypes.RuleOnReport (isNil tells it apart)
NoRule == [Module |-> "A", ErrorKey |-> "K1", Disabled |-> FALSE]

ReadAggregatorRuleForClusterID ==
    /\ pc = "idle"
    /\ \E writer \in Writers, agg \in AggAnswers(RuleOnReport, NoRule) :
        ReadResult("readAggregatorRuleForClusterID", agg,
                   readAggregatorRuleForClusterID(agg, writer))

\* a request that is rejected before an input is read carries the default
\* for that input
MetainfoRequests ==
    {r \in [clusterName : ClusterNames \cup {"bad"}, token : Tokens,
            agg : AggAnswers(Metainfos, Nil)] :
        /\ r.clusterName \in {"c1", "bad"}
        /\ r.clusterName = "bad" => ~r.token.ok
        /\ ~r.token.ok => r.agg = AggAnswer("urlError", Nil)}

ReportMetainfoEndpoint ==
    /\ pc = "idle"
    /\ \E writer \in Writers, req \in MetainfoRequests :
        LET o == reportMetainfoEndpoint(writer, req)
        IN  Finish("reportMetainfoEndpoint", req, o, o.written.responses, <<>>)

ClusterListRequests ==
    {r \in [clusterListOK : BOOLEAN, token : Tokens,
            agg : AggAnswers(ClusterReports, ZeroClusterReports)] :
        /\ ~r.clusterListOK => ~r.token.ok
        /\ ~r.token.ok => r.agg = AggAnswer("urlError", ZeroClusterReports)}

ReportForListOfClustersEndpoint ==
    /\ pc = "idle"
    /\ \E writer \in Writers, req \in ClusterListRequests :
        LET o == reportForListOfClustersEndpoint(writer, req)
        IN  Finish("reportForListOfClustersEndpoint", req, o, o.written.responses, <<>>)

ClusterListPayloadRequests ==
    {r \in [token : Tokens, bodyOK : BOOLEAN,
            agg : AggAnswers(ClusterReports, ZeroClusterReports)] :
        /\ ~r.token.ok => r.bodyOK
        /\ (~r.token.ok \/ ~r.bodyOK) => r.agg = AggAnswer("urlError", ZeroClusterReports)}

ReportForListOfClustersPayloadEndpoint ==
    /\ pc = "idle"
    /\ \E writer \in Writers, req \in ClusterListPayloadRequests :
        LET o == reportForListOfClustersPayloadEndpoint(writer, req)
        IN  Finish("reportForListOfClustersPayloadEndpoint", req, o,
                   o.written.responses, <<>>)

\* the answers to the report read made for one cluster of an overview
OverviewAnswers ==
    {OverviewAnswer(a, 0) : a \in {AggAnswer(k, <<>>) : k \in AggFailureKinds}} \cup
    {OverviewAnswer(AggAnswer("ok", r), n) : r \in Reports, n \in 0..MaxHits}

GetOverviewPerCluster ==
    /\ pc = "idle"
    /\ \E writer \in Writers, agg \in OverviewAnswers :
        LET o == getOverviewPerCluster(agg, writer)
        IN  Finish("getOverviewPerCluster", [agg |-> agg], o, o.writer.responses, o.lookups)

\* per cluster of an organization: no report, an upstream error, no hits, or hits
ClusterAnswers ==
    {OverviewAnswer(AggAnswer("urlError", <<>>), 0),
     OverviewAnswer(AggAnswer("status", <<>>), 0),
     OverviewAnswer(AggAnswer("ok", <<>>), 0),
     OverviewAnswer(AggAnswer("ok", <<[Module |-> "A", ErrorKey |-> "K1", Disabled |-> FALSE]>>), 1),
     OverviewAnswer(AggAnswer("ok", <<[Module |-> "A", ErrorKey |-> "K_SLOW", Disabled |-> FALSE]>>), 1)}

OverviewEndpoint ==
    /\ pc = "idle"
    /\ \E writer \in Writers, aggs \in SeqsUpTo(ClusterAnswers, MaxClusters) :
        LET o == overviewEndpoint(writer, aggs)
        IN  Finish("overviewEndpoint", [aggs |-> aggs], o, o.writer.responses, <<>>)

ProxyTo ==
    /\ pc = "idle"
    /\ \E writer \in Writers, req \in ProxyRequests :
        LET o == proxyTo(req.baseURL, req.options, writer, req)
        IN  Finish("proxyTo", req, o, o.written.responses, o.forwarded)

(***************************************************************************)
(* Specifications                                                          *)
(***************************************************************************)
EndpointConfigs ==
    {[DefaultConfig EXCEPT !.Auth = a, !.EnableInternalRulesOrganizations = e,
                           !.InternalRulesOrganizations = l] :
        a \in BOOLEAN, e \in BOOLEAN, l \in AllowLists}

ResolverConfigs ==
    {[DefaultConfig EXCEPT !.UseOrgClustersFallback = f, !.amsClient = c] :
        f \in BOOLEAN, c \in BOOLEAN}

\* the endpoints and the functions they are built from
Init == Config \in EndpointConfigs /\ CallIdle /\ GroupsInit
Next == ReportEndpoint \/ SingleRuleEndpoint \/ FilterRulesInResponse \/ GetRuleCount
        \/ NextRequest
Spec == Init /\ [][Next]_vars

\* the cluster resolver
InitClusters == Config \in ResolverConfigs /\ CallIdle /\ GroupsInit
NextClusters == ReadClusterIDsForOrgID \/ ReadClustersForOrgID \/ NextRequest
SpecClusters == InitClusters /\ [][NextClusters]_vars

\* one refresher and the concurrent callers of getGroupsConfig
InitGroups == Config = DefaultConfig /\ CallIdle /\ GroupsInit
NextGroups ==
    \/ Refresh
    \/ SendFlag
    \/ SendValue
    \/ \E r \in Readers : getGroupsConfig_Select(r)
    \/ \E r \in Readers : getGroupsConfig_RecvError(r)
    \/ \E r \in Readers : getGroupsConfig_RecvGroups(r)
    \/ \E r \in Readers : getGroupsConfig_Return(r)
SpecGroups == InitGroups /\ [][NextGroups]_vars

\* the five read operations of the aggregator client, and the handlers of
\* the metainfo request and of the multi-cluster requests
InitAggregator == Config = DefaultConfig /\ CallIdle /\ GroupsInit
NextAggregator ==
    \/ ReadAggregatorReportForClusterID
    \/ ReadAggregatorReportMetainfoForClusterID
    \/ ReadAggregatorReportForClusterList
    \/ ReadAggregatorReportForClusterListFromBody
    \/ ReadAggregatorRuleForClusterID
    \/ ReportMetainfoEndpoint
    \/ ReportForListOfClustersEndpoint
    \/ ReportForListOfClustersPayloadEndpoint
    \/ NextRequest
SpecAggregator == InitAggregator /\ [][NextAggregator]_vars

\* the overview calculator
InitOverview == Config = DefaultConfig /\ CallIdle /\ GroupsInit
NextOverview == GetOverviewPerCluster \/ OverviewEndpoint \/ NextRequest
SpecOverview == InitOverview /\ [][NextOverview]_vars

\* the proxy dispatcher
InitProxy == Config = DefaultConfig /\ CallIdle /\ GroupsInit
NextProxy == ProxyTo \/ NextRequest
SpecProxy == InitProxy /\ [][NextProxy]_vars

(***************************************************************************)
(* Helpers of the properties: what the filter is expected to do, stated    *)
(* on the input list.                                                      *)
(***************************************************************************)
FilterDone == pc = "done" /\ op = "filterRulesInResponse"
ReportDone == pc = "done" /\ op = "reportEndpoint"
RuleDone == pc = "done" /\ op = "singleRuleEndpoint"
CountDone == pc = "done" /\ op = "getRuleCount"
ResolverDone == pc = "done" /\ op \in {"readClusterIDsForOrgID", "readClustersForOrgID"}

ContentStatus(hit) == RuleContentDirectory[hit.ErrorKey].status
Skipped(hit, getDisabled) == hit.Disabled /\ ~getDisabled
Excluded(hit, filterOSD, getDisabled) ==
    /\ ~Skipped(hit, getDisabled)
    /\ ContentStatus(hit) = "found"
    /\ filterOSD
    /\ ~RuleContentDirectory[hit.ErrorKey].OSDEligible

\* index of the first hit whose lookup is made and times out, 0 when there is none
TimeoutIndex(report, getDisabled) ==
    LET hitsTimingOut == {i \in 1..Len(report) :
                            ~Skipped(report[i], getDisabled) /\ ContentStatus(report[i]) = "timeout"}
    IN  IF hitsTimingOut = {} THEN 0
        ELSE CHOOSE i \in hitsTimingOut : \A j \in hitsTimingOut : i <= j

\* the keys looked up for the first n hits
RECURSIVE ExpectedLookups(_, _, _)
ExpectedLookups(report, n, getDisabled) ==
    IF n = 0 THEN <<>>
    ELSE LET before == ExpectedLookups(report, n - 1, getDisabled)
         IN  IF Skipped(report[n], getDisabled) THEN before
             ELSE Append(before, report[n].ErrorKey)

\* the rules enriched out of the first n hits
RECURSIVE ExpectedVisible(_, _, _, _)
ExpectedVisible(report, n, filterOSD, getDisabled) ==
    IF n = 0 THEN <<>>
    ELSE LET before == ExpectedVisible(report, n - 1, filterOSD, getDisabled)
             hit == report[n]
         IN  IF \/ Skipped(hit, getDisabled)
                \/ ContentStatus(hit) # "found"
                \/ Excluded(hit, filterOSD, getDisabled)
             THEN before
             ELSE Append(before,
                         [RuleID |-> hit.Module, ErrorKey |-> hit.ErrorKey,
                          Disabled |-> hit.Disabled,
                          TotalRisk |-> RuleContentDirectory[hit.ErrorKey].TotalRisk,
                          Tags |-> RuleContentDirectory[hit.ErrorKey].Tags,
                          Internal |-> RuleContentDirectory[hit.ErrorKey].Internal])

(***************************************************************************)
(* C1.  As claimed: for every call of filterRulesInResponse that returns   *)
(* without a content error, len(okRules) + noContentRulesCnt +             *)
(* disabledRulesCnt equals the length of the input hit list.               *)
(***************************************************************************)
C1_CountsSumToInput ==
    (FilterDone /\ ret.contentError = Nil) =>
        Len(ret.okRules) + ret.noContentRulesCnt + ret.disabledRulesCnt
            = Len(request.aggregatorReport)

(***************************************************************************)
(* C2.  As claimed: in every response of the cluster-report endpoint and   *)
(* of the single-rule endpoint, a rule flagged internal is returned only   *)
(* if the internal-rules feature is enabled and the caller's organization  *)
(* is on the allow-list.                                                   *)
(***************************************************************************)
CallerAllowed ==
    /\ Config.EnableInternalRulesOrganizations
    /\ request.token.ok
    /\ request.token.org \in Config.InternalRulesOrganizations

C2_InternalOnlyForAllowedOrgs ==
    /\ RuleDone =>
        \A i \in 1..Len(written) :
            (written[i].kind = "ok" /\ written[i].data.Internal) => CallerAllowed
    /\ ReportDone =>
        \A i \in 1..Len(written) :
            written[i].kind = "ok" =>
                \A j \in 1..Len(written[i].data.Data) :
                    written[i].data.Data[j].Internal => CallerAllowed

(***************************************************************************)
(* C3.  As claimed: when a content lookup times out for a hit during       *)
(* filterRulesInResponse, the call stops at that hit and returns the       *)
(* timeout error with no partial list of enriched rules, and               *)
(* reportEndpoint answers with that error instead of a report.             *)
(***************************************************************************)
C3_TimeoutReturnsNoPartialList ==
    (ReportDone /\ ret.filtered
        /\ TimeoutIndex(request.agg.Report, readGetDisabledParam(request).value) # 0) =>
        /\ ret.filter.contentError = RuleContentDirectoryTimeoutError
        /\ ret.filter.okRules = <<>>
        /\ written = <<[kind |-> "error", err |-> RuleContentDirectoryTimeoutError]>>

\* C3 as amended: when a content lookup times out for a hit during
\* filterRulesInResponse, the call stops at that hit (no later hit is looked
\* up) and returns the timeout error together with the rules enriched before
\* the timeout; reportEndpoint does not send that partial list: it answers with
\* the timeout error, and only with it, instead of a report.
C3_TimeoutStopsAndIsAnswered ==
    (ReportDone /\ ret.filtered
        /\ TimeoutIndex(request.agg.Report, readGetDisabledParam(request).value) # 0) =>
        LET report == request.agg.Report
            getDisabled == readGetDisabledParam(request).value
            filterOSD == readOSDEligible(request).value
            k == TimeoutIndex(report, getDisabled)
        IN  /\ ret.filter.contentError = RuleContentDirectoryTimeoutError
            /\ ret.filter.lookups = ExpectedLookups(report, k, getDisabled)
            /\ ret.filter.okRules = ExpectedVisible(report, k - 1, filterOSD, getDisabled)
            /\ written = <<[kind |-> "error", err |-> RuleContentDirectoryTimeoutError]>>

\* C3 witness: a timeout on the second hit, after the first was enriched, with
\* nothing but the error written
C3_Witness ==
    /\ ReportDone
    /\ ret.filtered
    /\ ret.filter.contentError = RuleContentDirectoryTimeoutError
    /\ Len(ret.filter.okRules) = 1
    /\ Len(written) = 1

(***************************************************************************)
(* C4.  As claimed: getGroupsConfig never blocks the calling request: in   *)
(* every interleaving of the refresher and the readers, no call is ever    *)
(* left waiting for the refresher to perform a further send.               *)
(***************************************************************************)
C4_ReaderNeverWaits ==
    \A r \in Readers :
        /\ ~(reader[r].pc = "recvError" /\ ErrorChannel = <<>>)
        /\ ~(reader[r].pc = "recvGroups" /\ GroupsChannel = <<>>)

(***************************************************************************)
(* C5.  As claimed: the result of every getGroupsConfig call is            *)
(* determined by the refresher's latest publish: the stored error if it    *)
(* failed, the empty configuration without error if nothing was published  *)
(* yet, the published configuration if it succeeded.  Stated for the       *)
(* calls during which no publish completed.                                *)
(***************************************************************************)
C5_ResultIsLatestPublish ==
    \A r \in Readers :
        (reader[r].pc = "done" /\ reader[r].atCall = reader[r].atReturn) =>
            LET latest == reader[r].atCall
            IN  CASE latest.kind = "none" ->
                        reader[r].ruleGroups = EmptyGroups /\ reader[r].err = Nil
                  [] latest.kind = "error" ->
                        reader[r].err = latest.value
                  [] latest.kind = "groups" /\ latest.value # Nil ->
                        reader[r].ruleGroups = latest.value /\ reader[r].err = Nil
                  [] OTHER -> TRUE

(***************************************************************************)
(* C6.  getRuleCount returns 0 when the visible list is empty,             *)
(* noContent > 0 and disabled = 0, and len(visible) + noContent in every   *)
(* other case, for all non-negative inputs.                                *)
(***************************************************************************)
C6_RuleCount ==
    CountDone =>
        LET visible == Len(request.visibleRules)
            noContent == request.noContentRulesCnt
            disabled == request.disabledRulesCnt
        IN  /\ (visible = 0 /\ noContent > 0 /\ disabled = 0) => ret = 0
            /\ ~(visible = 0 /\ noContent > 0 /\ disabled = 0) => ret = visible + noContent
            /\ (visible = 0 /\ noContent > 0 /\ disabled > 0) => ret = noContent

\* C6 witness: no visible rule, rules without content and disabled rules: the
\* count is not forced to zero
C6_Witness ==
    /\ CountDone
    /\ Len(request.visibleRules) = 0
    /\ request.noContentRulesCnt = 2
    /\ request.disabledRulesCnt = 1
    /\ ret = 2

(***************************************************************************)
(* C7.  When getDisabled is false, no rule built from a disabled hit is    *)
(* in the list filterRulesInResponse returns, and every disabled hit the   *)
(* loop reaches is counted in disabledRulesCnt without a content lookup.   *)
(***************************************************************************)
C7_DisabledHitsAreCountedNotLookedUp ==
    (FilterDone /\ ~request.getDisabled) =>
        LET report == request.aggregatorReport
            k == TimeoutIndex(report, FALSE)
            reached == IF k = 0 THEN Len(report) ELSE k
        IN  /\ \A i \in 1..Len(ret.okRules) : ~ret.okRules[i].Disabled
            /\ ret.disabledRulesCnt = Cardinality({i \in 1..reached : report[i].Disabled})
            /\ ret.lookups = ExpectedLookups(report, reached, FALSE)
            /\ Len(ret.lookups) = Cardinality({i \in 1..reached : ~report[i].Disabled})

\* C7 witness: a disabled hit whose content exists is left out next to an
\* enabled hit that is returned
C7_Witness ==
    /\ FilterDone
    /\ ~request.getDisabled
    /\ \E i \in 1..Len(request.aggregatorReport) :
            /\ request.aggregatorReport[i].Disabled
            /\ ContentStatus(request.aggregatorReport[i]) = "found"
    /\ ret.disabledRulesCnt = 1
    /\ Len(ret.okRules) = 1

(***************************************************************************)
(* C8.  In every cluster-resolution call, if the membership-service call   *)
(* succeeds the aggregator's cluster listing is never called and the       *)
(* result is the membership service's; when the aggregator is called the   *)
(* membership service did not succeed and every cluster returned is the    *)
(* aggregator's: the two are never merged.                                 *)
(***************************************************************************)
AmsSucceeded == Config.amsClient /\ request.ams.err = Nil
ReturnedIDs ==
    IF op = "readClusterIDsForOrgID" THEN ret.clusterNames
    ELSE SelectSeq(GetClusterNames(ret.clusterInfo), LAMBDA id : id # "")

C8_ResolverPathsExclusive ==
    ResolverDone =>
        /\ AmsSucceeded =>
            /\ calls = <<"ams">>
            /\ ret.err = Nil
            /\ ReturnedIDs = GetClusterNames(request.ams.clusterInfoList)
            /\ op = "readClustersForOrgID" =>
                /\ ret.clusterInfo = request.ams.clusterInfoList
                /\ ret.clusterNamesMap = request.ams.clusterNamesMap
        /\ (\E i \in 1..Len(calls) : calls[i] = "aggregator") =>
            /\ ~AmsSucceeded
            /\ ReturnedIDs \in {request.agg.Clusters, <<>>}

\* C8 witness: the membership service answered with clusters while the
\* aggregator would have listed others
C8_Witness ==
    /\ ResolverDone
    /\ op = "readClusterIDsForOrgID"
    /\ AmsSucceeded
    /\ Len(request.ams.clusterInfoList) = 1
    /\ request.agg.kind = "ok"
    /\ request.agg.Clusters # <<>>
    /\ request.agg.Clusters # ret.clusterNames

(***************************************************************************)
(* C9.  When the fallback is disabled and the membership service fails or  *)
(* is not configured, both resolver operations return the "amsclient not   *)
(* initialized" error, return no clusters and never call the aggregator.   *)
(***************************************************************************)
C9_NoFallbackMeansError ==
    (ResolverDone /\ ~Config.UseOrgClustersFallback /\ ~AmsSucceeded) =>
        /\ ret.err = AmsNotInitialized
        /\ \A i \in 1..Len(calls) : calls[i] # "aggregator"
        /\ op = "readClusterIDsForOrgID" => ret.clusterNames = <<>>
        /\ op = "readClustersForOrgID" =>
            (ret.clusterInfo = <<>> /\ DOMAIN ret.clusterNamesMap = {})

\* C9 witness: the membership service failed, the fallback is off, and the
\* aggregator had clusters to list
C9_Witness ==
    /\ ResolverDone
    /\ op = "readClustersForOrgID"
    /\ ~Config.UseOrgClustersFallback
    /\ Config.amsClient
    /\ request.ams.err # Nil
    /\ request.agg.kind = "ok"
    /\ request.agg.Clusters # <<>>
    /\ ret.err = AmsNotInitialized

(***************************************************************************)
(* C10.  As claimed: when the membership service is configured and fails   *)
(* and the fallback is enabled, readClustersForOrgID returns exactly one   *)
(* cluster record per cluster ID the aggregator returned (same IDs, no     *)
(* extra or empty records) and a display-name map with exactly those IDs   *)
(* as keys, each mapped to the empty string.                               *)
(***************************************************************************)
C10_FallbackRecordsMatchAggregator ==
    (/\ pc = "done"
     /\ op = "readClustersForOrgID"
     /\ Config.amsClient
     /\ request.ams.err # Nil
     /\ Config.UseOrgClustersFallback
     /\ request.agg.kind = "ok") =>
        LET ids == request.agg.Clusters
        IN  /\ ret.err = Nil
            /\ ret.clusterInfo = [i \in 1..Len(ids) |-> [ID |-> ids[i], DisplayName |-> ""]]
            /\ DOMAIN ret.clusterNamesMap = Range(ids)
            /\ \A c \in Range(ids) : ret.clusterNamesMap[c] = ""

(***************************************************************************)
(* Helpers of the properties of the proxy dispatcher, the aggregator       *)
(* client and the overview calculator                                      *)
(***************************************************************************)
ProxyDone == pc = "done" /\ op = "proxyTo"
AggregatorReadDone ==
    /\ pc = "done"
    /\ op \in {"readAggregatorReportForClusterID", "readAggregatorReportMetainfoForClusterID",
               "readAggregatorReportForClusterList",
               "readAggregatorReportForClusterListFromBody",
               "readAggregatorRuleForClusterID"}
OverviewDone == pc = "done" /\ op = "getOverviewPerCluster"

\* index of the first modifier of a chain that returns an error, 0 when none does
FirstFailing(modifiers) ==
    LET failing == {i \in 1..Len(modifiers) : modifiers[i].err # Nil}
    IN  IF failing = {} THEN 0
        ELSE CHOOSE i \in failing : \A j \in failing : i <= j

\* the names of the first n modifiers of a chain
Names(modifiers, n) == [j \in 1..n |-> modifiers[j].name]

\* the calls of the first n modifiers, each on the output of the ones before it
ExpectedCalls(modifiers, n) ==
    [i \in 1..n |-> [modifier |-> modifiers[i].name, input |-> Names(modifiers, i - 1)]]

ServiceUnavailableErrors ==
    {"AggregatorServiceUnavailableError", "ContentServiceUnavailableError"}

(***************************************************************************)
(* C11.  The handler produced by proxyTo applies the request modifiers in  *)
(* the order of the chain, each on the output of the previous one; at the  *)
(* first modifier that returns an error no later modifier is applied, the  *)
(* request is not forwarded to the target, and that error is the response. *)
(* When no modifier fails and the outgoing request can be built, the       *)
(* request forwarded is the output of the last one; when http.NewRequest   *)
(* rejects it the handler panics with nothing forwarded or written.        *)
(***************************************************************************)
C11_RequestModifiersInOrder ==
    (ProxyDone /\ request.options.present) =>
        LET chain == request.options.RequestModifiers
            k == FirstFailing(chain)
            n == IF k = 0 THEN Len(chain) ELSE k
        IN  /\ ret.requestCalls = ExpectedCalls(chain, n)
            /\ k # 0 =>
                /\ ret.forwarded = <<>>
                /\ ret.responseCalls = <<>>
                /\ ~ret.panic
                /\ written = <<[kind |-> "error", err |-> chain[k].err]>>
            /\ (k = 0 /\ request.uriOK /\ request.Method = "GET") =>
                /\ ~ret.panic
                /\ ret.forwarded =
                        <<[base |-> request.baseURL, req |-> Names(chain, Len(chain))]>>
            /\ (k = 0 /\ request.uriOK /\ request.Method # "GET") =>
                /\ ret.panic
                /\ ret.forwarded = <<>>
                /\ written = <<>>

\* C11 witness: a chain of two whose second modifier fails after the first
\* one rewrote the request
C11_Witness ==
    /\ ProxyDone
    /\ request.options.present
    /\ Len(request.options.RequestModifiers) = 2
    /\ FirstFailing(request.options.RequestModifiers) = 2
    /\ Len(ret.requestCalls) = 2
    /\ ret.requestCalls[2].input = <<request.options.RequestModifiers[1].name>>
    /\ ret.forwarded = <<>>
    /\ Len(written) = 1

(***************************************************************************)
(* C12.  As claimed: when forwarding in proxyTo fails with a               *)
(* transport-level error, the response is the service-unavailable error of *)
(* the backend whose configured base address was the target; every other   *)
(* failure, an error returned by a response modifier included, is answered *)
(* with that error as a generic internal error and never with a backend    *)
(* service-unavailable error.                                              *)
(***************************************************************************)
C12_OnlyTransportFailuresAreServiceUnavailable ==
    ProxyDone =>
        LET transportFailed == ret.forwarded # <<>> /\ request.upstream.kind = "urlError"
        IN  /\ (transportFailed /\ request.baseURL = AggregatorBaseEndpoint) =>
                written = <<[kind |-> "error", err |-> "AggregatorServiceUnavailableError"]>>
            /\ (transportFailed /\ request.baseURL = ContentBaseEndpoint) =>
                written = <<[kind |-> "error", err |-> "ContentServiceUnavailableError"]>>
            /\ ~transportFailed =>
                \A i \in 1..Len(written) :
                    written[i].kind = "error" => written[i].err \notin ServiceUnavailableErrors

(***************************************************************************)
(* C13.  For each of the five aggregator read operations, when the         *)
(* aggregator answers with another status than 200 the operation writes    *)
(* the upstream status code and the upstream body, unchanged and nothing   *)
(* else, returns no result with the successful flag unset, and does not    *)
(* decode the body, also when the body would decode to a result.           *)
(***************************************************************************)
C13_StatusPassThrough ==
    (AggregatorReadDone /\ request.agg.kind = "status") =>
        /\ written = <<[kind |-> "raw", status |-> request.agg.StatusCode,
                        body |-> request.agg.Body]>>
        /\ ~ret.successful
        /\ ret.isNil
        /\ ~ret.panic

\* C13 witness: the read with the cluster list in the request body got a 500
\* whose body would decode to reports
C13_Witness ==
    /\ pc = "done"
    /\ op = "readAggregatorReportForClusterListFromBody"
    /\ request.agg.kind = "status"
    /\ request.agg.StatusCode = 500
    /\ request.agg.Report # ZeroClusterReports
    /\ Len(written) = 1
    /\ written[1].kind = "raw"
    /\ ~ret.successful

(***************************************************************************)
(* C14.  As claimed: for each aggregator read operation, a body with       *)
(* status 200 that does not have the expected JSON shape (a well-formed    *)
(* envelope whose report or metainfo member is missing or null included)   *)
(* ends the operation as an internal error: one error response is written, *)
(* the successful flag is unset, and the operation neither crashes nor     *)
(* succeeds with an absent result.                                         *)
(***************************************************************************)
C14_BadShapeIsInternalError ==
    (AggregatorReadDone /\ request.agg.kind \in {"badJSON", "nullReport"}) =>
        /\ ~ret.panic
        /\ ~ret.successful
        /\ Len(written) = 1
        /\ written[1].kind = "error"

(***************************************************************************)
(* C15.  As claimed: in every execution of a request at most one response  *)
(* is written to the client, also when the aggregator fails for one or     *)
(* several clusters of an overview computed through getOverviewPerCluster. *)
(***************************************************************************)
C15_AtMostOneResponse == pc = "done" => Len(written) <= 1

(***************************************************************************)
(* C16.  As claimed: in filterRulesInResponse, every hit that passes the   *)
(* disabled check and whose content is missing, or is excluded by the      *)
(* audience-eligibility filter when filterOSD is requested, increments     *)
(* noContentRulesCnt by exactly one and is not placed in the visible list. *)
(* Stated for the calls that return without a content error.               *)
(***************************************************************************)
C16_MissingOrExcludedIsNoContent ==
    (FilterDone /\ ret.contentError = Nil) =>
        LET report == request.aggregatorReport
            noContent == {i \in 1..Len(report) :
                            /\ ~Skipped(report[i], request.getDisabled)
                            /\ \/ ContentStatus(report[i]) = "missing"
                               \/ Excluded(report[i], request.filterOSD, request.getDisabled)}
        IN  /\ ret.noContentRulesCnt = Cardinality(noContent)
            /\ ret.okRules = ExpectedVisible(report, Len(report), request.filterOSD,
                                             request.getDisabled)

(***************************************************************************)
(* Expected overview of a list of hits: one total-risk score and all tags  *)
(* of every hit whose content exists, in input order.                      *)
(***************************************************************************)
RECURSIVE ExpectedRisks(_, _)
ExpectedRisks(report, n) ==
    IF n = 0 THEN <<>>
    ELSE IF ContentStatus(report[n]) = "found"
    THEN Append(ExpectedRisks(report, n - 1), RuleContentDirectory[report[n].ErrorKey].TotalRisk)
    ELSE ExpectedRisks(report, n - 1)

RECURSIVE ExpectedTags(_, _)
ExpectedTags(report, n) ==
    IF n = 0 THEN <<>>
    ELSE IF ContentStatus(report[n]) = "found"
    THEN ExpectedTags(report, n - 1) \o RuleContentDirectory[report[n].ErrorKey].Tags
    ELSE ExpectedTags(report, n - 1)

\* the cluster's report was read and states a hit count other than zero
OverviewComputed == OverviewDone /\ request.agg.kind = "ok" /\ request.agg.Count # 0

(***************************************************************************)
(* C17.  In getOverviewPerCluster, a content lookup that times out on any  *)
(* hit ends the cluster's overview: no later hit is looked up, the timeout *)
(* error is returned and no overview; a hit whose content is not found is  *)
(* skipped alone: the other hits are accumulated and an overview is        *)
(* returned without error.  Nothing is written to the client either way.   *)
(***************************************************************************)
C17_TimeoutAbortsNotFoundSkips ==
    OverviewComputed =>
        LET report == request.agg.Report
            k == TimeoutIndex(report, TRUE)
            found == {i \in 1..Len(report) : ContentStatus(report[i]) = "found"}
        IN  /\ k # 0 =>
                /\ ret.isNil
                /\ ret.err = RuleContentDirectoryTimeoutError
                /\ ret.lookups = ExpectedLookups(report, k, TRUE)
            /\ k = 0 =>
                /\ ~ret.isNil
                /\ ret.err = Nil
                /\ ret.lookups = ExpectedLookups(report, Len(report), TRUE)
                /\ Len(ret.overview.TotalRisksHit) = Cardinality(found)
            /\ written = <<>>
            /\ ~ret.panic

\* C17 witness: the first hit has no content, the second one has: the overview
\* holds the second hit's score
C17_Witness ==
    /\ OverviewComputed
    /\ Len(request.agg.Report) = 2
    /\ ContentStatus(request.agg.Report[1]) = "missing"
    /\ ContentStatus(request.agg.Report[2]) = "found"
    /\ ~ret.isNil
    /\ ret.err = Nil
    /\ Len(ret.overview.TotalRisksHit) = 1

(***************************************************************************)
(* C18.  As claimed: getOverviewPerCluster returns nil for every cluster   *)
(* that contributes zero hits and a non-nil overview only for clusters     *)
(* that contribute at least one total-risk score: no overview has empty    *)
(* risk and tag sequences.                                                 *)
(***************************************************************************)
C18_OverviewOnlyWithRisk ==
    (OverviewDone /\ request.agg.kind = "ok") =>
        /\ request.agg.Count = 0 => ret.isNil
        /\ ~ret.isNil => ret.overview.TotalRisksHit # <<>>

\* C18 as amended: getOverviewPerCluster returns nil without error, and looks
\* up nothing, for every cluster whose report states a hit count (Meta.Count)
\* of zero; for every other cluster that was read, when no lookup times out,
\* it returns a non-nil overview, whose risk and tag sequences are empty
\* when none of the hits has content.
C18_NilOnlyForZeroCount ==
    (OverviewDone /\ request.agg.kind = "ok") =>
        LET report == request.agg.Report
            found == {i \in 1..Len(report) : ContentStatus(report[i]) = "found"}
        IN  /\ request.agg.Count = 0 =>
                (ret.isNil /\ ret.err = Nil /\ ret.lookups = <<>>)
            /\ (request.agg.Count # 0 /\ TimeoutIndex(report, TRUE) = 0) =>
                /\ ~ret.isNil
                /\ found = {} =>
                    (ret.overview.TotalRisksHit = <<>> /\ ret.overview.TagsHit = <<>>)
                /\ found # {} => ret.overview.TotalRisksHit # <<>>

\* C18 witness: a cluster with one hit that has no content gets an overview
\* with empty sequences
C18_Witness ==
    /\ OverviewComputed
    /\ request.agg.Count = 1
    /\ Len(request.agg.Report) = 1
    /\ ContentStatus(request.agg.Report[1]) = "missing"
    /\ ~ret.isNil
    /\ ret.overview.TotalRisksHit = <<>>
    /\ ret.overview.TagsHit = <<>>

(***************************************************************************)
(* C19.  The single-rule endpoint answers with not-found when the rule's   *)
(* content is absent or excluded by the audience-eligibility filter, with  *)
(* the timeout error when the content lookup times out, and otherwise with *)
(* the enriched rule; for a rule flagged internal the permission check     *)
(* comes before any rule data is written, and a failed check is answered   *)
(* with an error response and nothing else.  The not-found answer is the   *)
(* first response in every case and the only one when the client accepts   *)
(* it; when the write of it fails, the write error follows it as an error  *)
(* response, and no response carries rule data.                            *)
(***************************************************************************)
C19_SingleRuleAnswers ==
    (RuleDone /\ request.agg.kind = "ok") =>
        LET hit == request.agg.Report
            content == RuleContentDirectory[hit.ErrorKey]
            excluded == /\ content.status = "found"
                        /\ readOSDEligible(request).value
                        /\ ~content.OSDEligible
            denied == /\ Config.EnableInternalRulesOrganizations
                      /\ Config.Auth
                      /\ request.token.org \notin Config.InternalRulesOrganizations
            notFound == [kind |-> "notFound", msg |-> "Rule was not found"]
        IN  /\ (content.status = "missing" \/ excluded) =>
                IF ret.written.ok
                THEN written = <<notFound>>
                ELSE written = <<notFound, [kind |-> "error", err |-> "WriteError"]>>
            /\ content.status = "timeout" =>
                written = <<[kind |-> "error", err |-> RuleContentDirectoryTimeoutError]>>
            /\ (content.status = "found" /\ ~excluded) =>
                IF content.Internal /\ denied
                THEN written = <<[kind |-> "error", err |-> "AuthenticationError"]>>
                ELSE /\ Len(written) = 1
                     /\ written[1].kind = "ok"
                     /\ written[1].data.ErrorKey = hit.ErrorKey
                     /\ written[1].data.TotalRisk = content.TotalRisk
                     /\ written[1].data.Tags = content.Tags

\* C19 witness: an internal rule asked for by an organization that is not on
\* the allow-list: the answer is the error alone
C19_Witness ==
    /\ RuleDone
    /\ request.agg.kind = "ok"
    /\ request.agg.Report.ErrorKey = "K_INTERNAL"
    /\ Config.EnableInternalRulesOrganizations
    /\ Config.Auth
    /\ request.token.org \notin Config.InternalRulesOrganizations
    /\ written = <<[kind |-> "error", err |-> "AuthenticationError"]>>

(***************************************************************************)
(* C20.  The overview applies the content-existence test only: for a       *)
(* cluster with a hit count other than zero, the overview                  *)
(* getOverviewPerCluster returns holds one total-risk score and all tags   *)
(* of every hit whose content lookup succeeds, in input order, whatever    *)
(* the hit's Disabled flag and the audience eligibility of its content,    *)
(* and nothing of any other hit.                                           *)
(***************************************************************************)
C20_OverviewUsesContentExistenceOnly ==
    (OverviewComputed /\ TimeoutIndex(request.agg.Report, TRUE) = 0) =>
        /\ ~ret.isNil
        /\ ret.overview.TotalRisksHit = ExpectedRisks(request.agg.Report, Len(request.agg.Report))
        /\ ret.overview.TagsHit = ExpectedTags(request.agg.Report, Len(request.agg.Report))

\* C20 witness: a disabled hit whose content is not eligible for the OSD
\* audience is in the overview, after an enabled one
C20_Witness ==
    /\ OverviewComputed
    /\ Len(request.agg.Report) = 2
    /\ request.agg.Report[1].ErrorKey = "K1"
    /\ ~request.agg.Report[1].Disabled
    /\ request.agg.Report[2].ErrorKey = "K_ADMIN"
    /\ request.agg.Report[2].Disabled
    /\ ~ret.isNil
    /\ ret.overview.TotalRisksHit = <<2, 3>>
    /\ ret.overview.TagsHit = <<"t1", "t1", "t2">>

(***************************************************************************)
(* C21.  In every successful cluster-report response built by              *)
(* reportEndpoint, Meta.Count is at least the number of rules in Data and  *)
(* at most the number of raw hits received from the aggregator, and Data   *)
(* is a subsequence of the raw hits in their input order.                  *)
(***************************************************************************)
\* data[j..] can be matched, in order, to hits among hits[i..]
RECURSIVE IsSubsequenceFrom(_, _, _, _)
IsSubsequenceFrom(data, hits, j, i) ==
    IF j > Len(data) THEN TRUE
    ELSE IF i > Len(hits) THEN FALSE
    ELSE IF /\ data[j].RuleID = hits[i].Module
            /\ data[j].ErrorKey = hits[i].ErrorKey
            /\ data[j].Disabled = hits[i].Disabled
    THEN IsSubsequenceFrom(data, hits, j + 1, i + 1)
    ELSE IsSubsequenceFrom(data, hits, j, i + 1)

C21_CountBoundsAndDataOrder ==
    ReportDone =>
        \A k \in 1..Len(written) :
            written[k].kind = "ok" =>
                LET report == written[k].data
                    hits == request.agg.Report
                IN  /\ request.agg.kind = "ok"
                    /\ Len(report.Data) <= report.Meta.Count
                    /\ report.Meta.Count <= Len(hits)
                    /\ IsSubsequenceFrom(report.Data, hits, 1, 1)

\* C21 witness: a report whose second hit is visible and whose first hit has
\* no content: one rule in Data, a count of two, two raw hits
C21_Witness ==
    /\ ReportDone
    /\ Len(request.agg.Report) = 2
    /\ ContentStatus(request.agg.Report[1]) = "missing"
    /\ Len(written) = 1
    /\ written[1].kind = "ok"
    /\ Len(written[1].data.Data) = 1
    /\ written[1].data.Data[1].ErrorKey = request.agg.Report[2].ErrorKey
    /\ written[1].data.Meta.Count = 2

====
